---- MODULE Spec2Model ----
(***************************************************************************)
(* Model of apps/web/server.ts: the SSR front server of cmmv-blog.         *)
(* Page Render Cache, Static File Cache, compression negotiation, admin    *)
(* routes, the per-request dispatcher and the set-thema restart sequence.  *)
(*                                                                         *)
(* Strings whose characters the code inspects (url, User-Agent,            *)
(* Accept-Encoding, cache keys) are sequences of one-character strings.    *)
(* Time is counted in ticks of 15 minutes.                                 *)
(***************************************************************************)
EXTENDS Integers, Sequences, FiniteSets, Bags, TLC

(***************************************************************************)
(* Bounds of the model.                                                    *)
(***************************************************************************)
MaxTime == 3          \* the clock runs 0..MaxTime
MaxInFlight == 2      \* requests that can be suspended at the same time
MaxRestarts == 2      \* set-thema requests that may schedule a restart
MaxWrites == 2        \* times a file under dist/ is written again

(***************************************************************************)
(* String helpers (String.prototype.includes / startsWith / toLowerCase    *)
(* and the regular expression /\.\w+$/).                                   *)
(***************************************************************************)
Includes(s, needle) ==
    \E i \in 0..(Len(s) - Len(needle)) : SubSeq(s, i + 1, i + Len(needle)) = needle

StartsWith(s, prefix) ==
    Len(s) >= Len(prefix) /\ SubSeq(s, 1, Len(prefix)) = prefix

LowerChar(c) ==
    CASE c = "M" -> "m" [] c = "O" -> "o" [] c = "B" -> "b"
      [] c = "I" -> "i" [] c = "L" -> "l" [] c = "E" -> "e"
      [] OTHER -> c

ToLowerCase(s) == [i \in 1..Len(s) |-> LowerChar(s[i])]

WordChars ==
    {"a", "b", "c", "d", "e", "g", "h", "i", "j", "l", "m", "n", "o", "p",
     "r", "s", "t", "x", "z", "0", "1", "_"}

\* mutant: only the extensions the server has a content type for
HasExtension_KnownTypes(url) ==
    \E i \in 1..(Len(url) - 1) :
        url[i] = "." /\ SubSeq(url, i + 1, Len(url)) \in {<<"j", "s">>, <<"p", "n", "g">>}

\* /\.\w+$/.test(url)
HasExtension(url) ==
    \E i \in 1..(Len(url) - 1) :
        url[i] = "." /\ \A j \in (i + 1)..Len(url) : url[j] \in WordChars

(***************************************************************************)
(* Program constants.                                                      *)
(***************************************************************************)
PAGE_CACHE_DURATION == 2      \* 30 * 60 * 1000 ms = 2 ticks of 15 minutes

MOBILE == <<"m", "o", "b", "i", "l", "e">>
DESKTOP == <<"d", "e", "s", "k", "t", "o", "p">>
BR == <<"b", "r">>
GZIP == <<"g", "z", "i", "p">>

(***************************************************************************)
(* zlib and crypto: deterministic functions of the payload, not the        *)
(* identity.                                                               *)
(***************************************************************************)
gzipSync(data) == <<"gzip", data>>
brotliCompressSync(data) == <<"br", data>>
\* mutant: every buffer has the same digest
md5_Constant(buffer) == <<"md5", <<"bytes", "">>>>

md5(buffer) == <<"md5", buffer>>

\* Rendered documents (the final template string) and file contents.
Docs == {<<"html", "v1">>, <<"html", "v2">>}

(***************************************************************************)
(* Page Render Cache: a map from cache key to PageCacheEntry, here a       *)
(* function whose domain is the set of keys present.                       *)
(***************************************************************************)
EmptyMap == [k \in {} |-> 0]

MapSet(m, k, v) == [x \in (DOMAIN m) \cup {k} |-> IF x = k THEN v ELSE m[x]]

MapRestrict(m, keep) == [x \in (DOMAIN m) \cap keep |-> m[x]]

\* mutant: the sweep also removes an entry whose age is exactly the TTL
SweepExpired_Inclusive(entry, t) == t - entry.timestamp >= PAGE_CACHE_DURATION

\* the sweep's test for one entry (server.ts:39)
SweepExpired(entry, t) == t - entry.timestamp > PAGE_CACHE_DURATION

cleanExpiredPageCache(cache, t) ==
    MapRestrict(cache, {k \in DOMAIN cache : ~SweepExpired(cache[k], t)})

\* mutant: the age test lets an entry of age exactly TTL through
isPageCacheValid_Inclusive(cache, key, t) ==
    IF key \notin DOMAIN cache THEN FALSE
    ELSE (t - cache[key].timestamp) <= PAGE_CACHE_DURATION

\* mutant: an entry that is present is valid whatever its age
isPageCacheValid_NoExpiry(cache, key, t) == key \in DOMAIN cache

isPageCacheValid(cache, key, t) ==
    IF key \notin DOMAIN cache THEN FALSE
    ELSE (t - cache[key].timestamp) < PAGE_CACHE_DURATION

\* mutant: the User-Agent is searched without lower-casing it
generateCacheKey_CaseSensitive(url, userAgent) ==
    LET isMobile == IF Includes(userAgent, MOBILE) THEN MOBILE ELSE DESKTOP
    IN  url \o <<":">> \o isMobile

\* mutant: the device class is left out of the decision
generateCacheKey_NoDevice(url, userAgent) == url \o <<":">> \o DESKTOP

generateCacheKey(url, userAgent) ==
    LET isMobile == IF Includes(ToLowerCase(userAgent), MOBILE) THEN MOBILE ELSE DESKTOP
    IN  url \o <<":">> \o isMobile

clearPageCache(cache) == EmptyMap

\* mutant: every entry is counted valid, the expired ones a second time
getCacheStats_AllValid(cache, t) ==
    LET expired == {k \in DOMAIN cache : t - cache[k].timestamp > PAGE_CACHE_DURATION}
    IN  [total |-> Cardinality(DOMAIN cache),
         valid |-> Cardinality(DOMAIN cache),
         expired |-> Cardinality(expired)]

getCacheStats(cache, t) ==
    LET expired == {k \in DOMAIN cache : t - cache[k].timestamp > PAGE_CACHE_DURATION}
    IN  [total |-> Cardinality(DOMAIN cache),
         valid |-> Cardinality((DOMAIN cache) \ expired),
         expired |-> Cardinality(expired)]

(***************************************************************************)
(* Compression Negotiator.                                                 *)
(***************************************************************************)
compressHtml(html, acceptEncoding) ==
    IF Includes(acceptEncoding, BR)
    THEN [data |-> brotliCompressSync(html), encoding |-> "br"]
    ELSE IF Includes(acceptEncoding, GZIP)
    THEN [data |-> gzipSync(html), encoding |-> "gzip"]
    ELSE [data |-> html, encoding |-> "null"]

compressFile(buffer, acceptEncoding) ==
    IF Includes(acceptEncoding, BR)
    THEN [data |-> brotliCompressSync(buffer), encoding |-> "br"]
    ELSE IF Includes(acceptEncoding, GZIP)
    THEN [data |-> gzipSync(buffer), encoding |-> "gzip"]
    ELSE [data |-> buffer, encoding |-> "null"]

(***************************************************************************)
(* Requests.  A request is a record of the fields the handler reads.       *)
(***************************************************************************)
SECRET == "Bearer s3cret"      \* `Bearer ${env.VITE_SIGNATURE}`

URL_ROOT == <<"/">>
URL_THEMAS == <<"/", "t", "h", "e", "m", "a", "s">>
URL_CLEAR == <<"/", "c", "a", "c", "h", "e", "/", "c", "l", "e", "a", "r">>
URL_STATS == <<"/", "c", "a", "c", "h", "e", "/", "s", "t", "a", "t", "s">>
URL_SET_THEMA == <<"/", "s", "e", "t", "-", "t", "h", "e", "m", "a">>
URL_A == <<"/", "a">>
URL_A_MOBILE == <<"/", "a", ":", "m", "o", "b", "i", "l", "e">>
URL_A_DESKTOP == <<"/", "a", ":", "d", "e", "s", "k", "t", "o", "p">>
URL_ASSET == <<"/", "a", "s", "s", "e", "t", "s", "/", "a", ".", "j", "s">>
URL_LOGO == <<"/", "l", "o", "g", "o", ".", "p", "n", "g">>
URL_CSS == <<"/", "x", ".", "c", "s", "s">>
URL_DIR == <<"/", "d", ".", "j", "s">>
ASSETS_PREFIX == <<"/", "a", "s", "s", "e", "t", "s", "/">>

UA_NONE == <<>>
UA_PHONE == <<"i", "O", "S", " ", "M", "o", "b", "i", "l", "e">>
UA_DESK == <<"X", "1", "1">>
UA_LOWER == <<"m", "o", "b", "i", "l", "e", "/", "1">>

AE_NONE == <<>>
AE_GZIP == <<"g", "z", "i", "p">>
AE_BR == <<"b", "r">>
AE_ALL == <<"g", "z", "i", "p", ",", " ", "b", "r">>

NoTag == <<"none">>
NoBody == <<"none">>

Request(method, url, authorization, userAgent, acceptEncoding, ifNoneMatch, body) ==
    [method |-> method, url |-> url, authorization |-> authorization,
     userAgent |-> userAgent, acceptEncoding |-> acceptEncoding,
     ifNoneMatch |-> ifNoneMatch, body |-> body]

Get(url, userAgent, acceptEncoding) ==
    Request("GET", url, "", userAgent, acceptEncoding, NoTag, NoBody)

Undefined == <<"undefined">>

\* a fresh http.ServerResponse: status 200, no header, not ended
NewRes == [statusCode |-> 200, headers |-> EmptyMap, body |-> <<"unsent">>]

setHeader(res, name, value) == [res EXCEPT !.headers = MapSet(@, name, value)]

end(res, data) == [res EXCEPT !.body = data]

\* Object.entries(headers).forEach(([key, value]) => res.setHeader(key, value))
setHeaders(res, headers) ==
    [res EXCEPT !.headers =
        [n \in (DOMAIN @) \cup (DOMAIN headers) |->
            IF n \in DOMAIN headers THEN headers[n] ELSE @[n]]]

Unauthorized ==
    end(setHeader([NewRes EXCEPT !.statusCode = 401], "Content-Type", "text/plain"),
        <<"text", "Unauthorized">>)

(***************************************************************************)
(* Static File Cache (serveStaticFile).  The file system maps a path to    *)
(* [kind, content, mtime]; an absent path is not in the domain.            *)
(***************************************************************************)
EndsWith(s, suffix) ==
    Len(s) >= Len(suffix) /\ SubSeq(s, Len(s) - Len(suffix) + 1, Len(s)) = suffix

\* path.resolve('dist', '.' + url)
DistPath(url) == <<"dist">> \o url

\* mime.lookup(filePath) || 'application/octet-stream'
MimeLookup(filePath) ==
    IF EndsWith(filePath, <<".", "j", "s">>) THEN "application/javascript"
    ELSE IF EndsWith(filePath, <<".", "p", "n", "g">>) THEN "image/png"
    ELSE "application/octet-stream"

\* compressibleTypes.some(type => contentType.includes(type))
IsCompressible(contentType) ==
    contentType \in {"text/html", "text/css", "text/plain", "application/javascript",
                     "application/json", "image/svg+xml", "application/xml"}

\* mutant: an entry is reused whatever its modification time
FileCacheHit_AnyEntry(fc, filePath, mtime) == filePath \in DOMAIN fc

\* cacheEntry && cacheEntry.mtime === mtime (server.ts:154)
FileCacheHit(fc, filePath, mtime) ==
    filePath \in DOMAIN fc /\ fc[filePath].mtime = mtime

\* io = "throw": statSync or readFileSync throws, caught at server.ts:194
serveStaticFile(in, res, filePath, fs, fc, io) ==
    LET notServed == [served |-> FALSE, res |-> res, fileCache |-> fc]
    IN  IF filePath \notin DOMAIN fs THEN notServed
        ELSE IF io = "throw" THEN notServed
        ELSE IF fs[filePath].kind # "file" THEN notServed
        ELSE
          LET mtime == fs[filePath].mtime
              hit == FileCacheHit(fc, filePath, mtime)
              buffer == IF hit THEN fc[filePath].buffer ELSE fs[filePath].content
              etag == IF hit THEN fc[filePath].etag ELSE md5(buffer)
              fc2 == IF hit THEN fc
                     ELSE MapSet(fc, filePath,
                                 [buffer |-> buffer, etag |-> etag, mtime |-> mtime])
              contentType == MimeLookup(filePath)
              base == setHeader(setHeader(setHeader(res, "Content-Type", contentType),
                                          "ETag", etag),
                                "Cache-Control", "public, max-age=900")
              compressed == compressFile(buffer, in.acceptEncoding)
          IN  IF in.ifNoneMatch = etag
              THEN [served |-> TRUE,
                    res |-> end(setHeader([res EXCEPT !.statusCode = 304], "ETag", etag),
                                <<"empty">>),
                    fileCache |-> fc2]
              ELSE IF IsCompressible(contentType)
              THEN [served |-> TRUE,
                    res |-> IF compressed.encoding # "null"
                            THEN end(setHeader(setHeader(base, "Content-Encoding",
                                                         compressed.encoding),
                                               "Vary", "Accept-Encoding"),
                                     compressed.data)
                            ELSE end(base, compressed.data),
                    fileCache |-> fc2]
              ELSE [served |-> TRUE, res |-> end(base, buffer), fileCache |-> fc2]

\* the two static stages of the dispatcher (server.ts:367-377)
StaticStages(in, res, fs, fc, io) ==
    LET url == in.url
        first == IF StartsWith(url, ASSETS_PREFIX)
                 THEN serveStaticFile(in, res, DistPath(url), fs, fc, io)
                 ELSE [served |-> FALSE, res |-> res, fileCache |-> fc]
    IN  IF first.served THEN first
        ELSE IF url # URL_ROOT /\ ~Includes(url, <<"?">>) /\ HasExtension(url)
        THEN serveStaticFile(in, first.res, DistPath(url), fs, first.fileCache, io)
        ELSE first

(***************************************************************************)
(* Theme Registry (bootstrap, server.ts:213-235) and the lookup of         *)
(* set-thema (server.ts:325-328).                                          *)
(***************************************************************************)
\* the theme-* directories under src/ and the state of their theme.json
ThemeFolders ==
    {[ns |-> "default", manifest |-> "ok"],
     [ns |-> "dark", manifest |-> "ok"],
     [ns |-> "broken", manifest |-> "malformed"],
     [ns |-> "empty", manifest |-> "absent"]}

\* the key `./${folder}/theme.json` of a discovered theme
ThemeKey(ns) == <<"./", "theme-", ns, "/theme.json">>

DiscoverThemes ==
    [k \in {ThemeKey(f.ns) : f \in {g \in ThemeFolders : g.manifest = "ok"}} |->
        [namespace |-> k[3]]]

\* path.match(/\.\/theme-([^/]+)\/theme\.json/)?.[1] || ''
ThemeNameOf(key) == key[3]

\* mutant: the callback of some() returns the theme name, not the comparison
themeExists_NoCompare(themes, theme) == \E key \in DOMAIN themes : ThemeNameOf(key) # ""

themeExists(themes, theme) == \E key \in DOMAIN themes : ThemeNameOf(key) = theme

\* the settings document served by `${env.VITE_API_URL}/settings`
RemoteSettings == [theme |-> "default", title |-> "blog"]

(***************************************************************************)
(* State.                                                                  *)
(***************************************************************************)
VARIABLES
    now,             \* Date.now(), in ticks
    pageCache,       \* const pageCache = new Map<string, PageCacheEntry>()
    fileCache,       \* const fileCache = new Map<string, {buffer, etag, mtime}>()
    files,           \* the file system under dist/
    settingsStore,   \* what useSettingsStore().setSettings() was last given
    serverInstance,  \* let serverInstance: index into servers, 0 = null
    servers,         \* every http.Server created so far: [state, themes]
    boots,           \* bootstrap() calls suspended in `await createServer`
    timers,          \* pending restart timers (setTimeout at server.ts:348)
    crashed,         \* the process died of an unhandled 'error' event
    req,             \* the bag of requests suspended at an await
    out,             \* the request answered last, with its response
    restarts         \* restart timers scheduled so far

vars == <<now, pageCache, fileCache, files, settingsStore, serverInstance, servers,
          boots, timers, crashed, req, out, restarts>>

NoIn == Request("", <<>>, "", <<>>, <<>>, NoTag, NoBody)

\* pc: idle | body | fetch | load | render | hung, and done in `out`.
\* History kept with a request: renders counts its calls of the rendering
\* engine; age is the age of the entry its lookup found (-1: none); doc is
\* the document it rendered or was served from the cache; stale says that it
\* was inside the render call when cache/clear removed an entry of its key
\* and that no later request has stored the key since; swept says that its
\* sweep removed an entry.
Idle ==
    [pc |-> "idle", in |-> NoIn, srv |-> 0, cacheKey |-> <<>>, lookup |-> "none",
     renders |-> 0, age |-> -1, doc |-> Undefined, stale |-> FALSE, swept |-> FALSE,
     res |-> NewRes]

\* dist/ holds two regular files and a directory; /x.css is absent
InitialFiles ==
    [p \in {DistPath(URL_ASSET), DistPath(URL_LOGO), DistPath(URL_DIR)} |->
        IF p = DistPath(URL_ASSET)
        THEN [kind |-> "file", content |-> <<"bytes", "js1">>, mtime |-> 1]
        ELSE IF p = DistPath(URL_LOGO)
        THEN [kind |-> "file", content |-> <<"bytes", "png1">>, mtime |-> 1]
        ELSE [kind |-> "dir", content |-> <<"bytes", "">>, mtime |-> 1]]

Init ==
    /\ now = 0
    /\ pageCache = EmptyMap
    /\ fileCache = EmptyMap
    /\ files = InitialFiles
    /\ settingsStore = RemoteSettings
    /\ serverInstance = 0
    /\ servers = <<>>
    /\ boots = 1
    /\ timers = 0
    /\ crashed = FALSE
    /\ req = EmptyBag
    /\ out = Idle
    /\ restarts = 0

Listening == {s \in 1..Len(servers) : servers[s].state = "listening"}

\* the requests in flight
InFlight == BagToSet(req)

\* a request starts waiting at an await / moves on / leaves
Suspend(rq) == req (+) SetToBag({rq})
Resume(old, new) == (req (-) SetToBag({old})) (+) SetToBag({new})
Leave(old) == req (-) SetToBag({old})

\* res.end(): the request is answered
Answered(rq, res) == [rq EXCEPT !.pc = "done", !.res = res]

\* the bag B with f applied to each of its elements
BagImage(B, f) ==
    [x \in {f[e] : e \in BagToSet(B)} |->
        BagCardinality([e \in {d \in BagToSet(B) : f[d] = x} |-> B[e]])]

\* History only: cache/clear marks the requests inside the render call whose
\* key it removed; a later store of the key by an unmarked request unmarks.
MarkStale(B, cache) ==
    LET mark == [e \in BagToSet(B) |->
                    IF e.pc = "render" /\ e.cacheKey \in DOMAIN cache
                    THEN [e EXCEPT !.stale = TRUE] ELSE e]
    IN  BagImage(B, mark)

UnmarkStale(B, cacheKey) ==
    LET unmark == [e \in BagToSet(B) |->
                      IF e.pc = "render" /\ e.cacheKey = cacheKey
                      THEN [e EXCEPT !.stale = FALSE] ELSE e]
    IN  BagImage(B, unmark)

SetThemaInFlight == BagCardinality([e \in {d \in InFlight : d.pc \in {"body", "fetch"}} |-> req[e]])

\* mutant: any non-empty Authorization header passes
IsAuthorized_AnyHeader(authHeader) == authHeader # ""

\* authHeader !== expectedAuth (server.ts:263, 281, 299), negated
IsAuthorized(authHeader) == authHeader = SECRET

(***************************************************************************)
(* The request handler up to its first suspension point (server.ts:237-    *)
(* 390): /themas, the three admin routes, the two static stages.           *)
(***************************************************************************)
Receive(in, io) ==
    /\ ~crashed
    /\ \E s \in Listening :
        LET themes == servers[s].themes
            start == [Idle EXCEPT !.in = in, !.srv = s]
            fin(res) == Answered(start, res)
            json(res, data) == end(setHeader(res, "Content-Type", "application/json"), data)
            st == StaticStages(in, NewRes, files, fileCache, io)
        IN
        IF in.url = URL_THEMAS /\ in.method = "GET" THEN
            /\ out' = fin(json(NewRes, <<"json", {themes[k] : k \in DOMAIN themes}>>))
            /\ UNCHANGED <<req, pageCache, fileCache>>
        ELSE IF in.url = URL_CLEAR /\ in.method = "POST" THEN
            IF ~IsAuthorized(in.authorization) THEN
                /\ out' = fin(Unauthorized)
                /\ UNCHANGED <<req, pageCache, fileCache>>
            ELSE
                /\ pageCache' = clearPageCache(pageCache)
                /\ out' = fin(json(NewRes, <<"json", [success |-> TRUE,
                                                     message |-> "Cache cleared successfully"]>>))
                /\ req' = MarkStale(req, pageCache)
                /\ UNCHANGED fileCache
        ELSE IF in.url = URL_STATS /\ in.method = "GET" THEN
            /\ out' = IF ~IsAuthorized(in.authorization) THEN fin(Unauthorized)
                      ELSE fin(json(NewRes, <<"json", getCacheStats(pageCache, now)>>))
            /\ UNCHANGED <<req, pageCache, fileCache>>
        ELSE IF in.url = URL_SET_THEMA /\ in.method = "POST" THEN
            IF ~IsAuthorized(in.authorization) THEN
                /\ out' = fin(Unauthorized)
                /\ UNCHANGED <<req, pageCache, fileCache>>
            ELSE
                /\ restarts + SetThemaInFlight < MaxRestarts
                /\ BagCardinality(req) < MaxInFlight
                /\ req' = Suspend([start EXCEPT !.pc = "body"])
                /\ UNCHANGED <<out, pageCache, fileCache>>
        ELSE IF st.served THEN
            /\ out' = fin(st.res)
            /\ fileCache' = st.fileCache
            /\ UNCHANGED <<req, pageCache>>
        ELSE
            /\ BagCardinality(req) < MaxInFlight
            /\ req' = Suspend([start EXCEPT !.pc = "load"])
            /\ UNCHANGED <<out, pageCache, fileCache>>
    /\ UNCHANGED <<now, files, settingsStore, serverInstance, servers, boots, timers,
                   crashed, restarts>>

(***************************************************************************)
(* The cache-or-render path (server.ts:392-506).                           *)
(***************************************************************************)
\* const responseHeaders (server.ts:469-472)
ResponseHeaders ==
    [n \in {"Content-Type", "Cache-Control"} |->
        IF n = "Content-Type" THEN "text/html" ELSE "public, max-age=900"]

\* mutant: the gzip buffer is stored as the uncompressed variant
NewEntry_WrongSlot(template, t) ==
    [html |-> template,
     compressedVersions |-> [gzip |-> gzipSync(template),
                             br |-> brotliCompressSync(template),
                             uncompressed |-> gzipSync(template)],
     timestamp |-> t,
     headers |-> ResponseHeaders]

\* mutant: the br variant is not computed
NewEntry_NoBrotli(template, t) ==
    [html |-> template,
     compressedVersions |-> [gzip |-> gzipSync(template),
                             br |-> Undefined,
                             uncompressed |-> template],
     timestamp |-> t,
     headers |-> ResponseHeaders]

\* the entry written by pageCache.set (server.ts:481-493)
NewEntry(template, t) ==
    [html |-> template,
     compressedVersions |-> [gzip |-> gzipSync(template),
                             br |-> brotliCompressSync(template),
                             uncompressed |-> template],
     timestamp |-> t,
     headers |-> ResponseHeaders]

\* mutant: the hit path tries gzip before br
HitResponse_GzipFirst(cachedEntry, acceptEncoding) ==
    LET res == setHeaders(NewRes, cachedEntry.headers)
    IN  IF Includes(acceptEncoding, GZIP) /\ cachedEntry.compressedVersions.gzip # Undefined
        THEN end(setHeader(res, "Content-Encoding", "gzip"),
                 cachedEntry.compressedVersions.gzip)
        ELSE IF Includes(acceptEncoding, BR) /\ cachedEntry.compressedVersions.br # Undefined
        THEN end(setHeader(res, "Content-Encoding", "br"), cachedEntry.compressedVersions.br)
        ELSE end(res, cachedEntry.compressedVersions.uncompressed)

\* the response of a cache hit (server.ts:408-428)
HitResponse(cachedEntry, acceptEncoding) ==
    LET res == setHeaders(NewRes, cachedEntry.headers)
    IN  IF Includes(acceptEncoding, BR) /\ cachedEntry.compressedVersions.br # Undefined
        THEN end(setHeader(res, "Content-Encoding", "br"), cachedEntry.compressedVersions.br)
        ELSE IF Includes(acceptEncoding, GZIP) /\ cachedEntry.compressedVersions.gzip # Undefined
        THEN end(setHeader(res, "Content-Encoding", "gzip"),
                 cachedEntry.compressedVersions.gzip)
        ELSE end(res, cachedEntry.compressedVersions.uncompressed)

\* the response of a cache miss after a successful render (server.ts:474-500)
MissResponse(template, acceptEncoding) ==
    LET res == setHeaders(NewRes, ResponseHeaders)
        compressed == compressHtml(template, acceptEncoding)
    IN  IF compressed.encoding # "null"
        THEN end(setHeader(res, "Content-Encoding", compressed.encoding), compressed.data)
        ELSE end(res, compressed.data)

\* The template and the render module are loaded (server.ts:379-390) and
\* vite's middlewares pass the request on; the callback then runs up to the
\* cache lookup.  outcome = "throw": the load throws outside any try, the
\* handler's promise rejects and the response is never written.
LoadReturn(rq, outcome) ==
    /\ ~crashed
    /\ rq \in InFlight
    /\ rq.pc = "load"
    /\ LET in == rq.in
           swept == cleanExpiredPageCache(pageCache, now)
           cacheKey == generateCacheKey(in.url, in.userAgent)
           age == IF cacheKey \in DOMAIN pageCache
                  THEN now - pageCache[cacheKey].timestamp ELSE -1
           looked(result) ==
               [rq EXCEPT !.cacheKey = cacheKey, !.lookup = result, !.age = age,
                          !.swept = (swept # pageCache)]
       IN
       IF outcome = "throw" THEN
           /\ req' = Resume(rq, [rq EXCEPT !.pc = "hung"])
           /\ UNCHANGED <<out, pageCache>>
       ELSE IF HasExtension(in.url) THEN
           /\ out' = Answered(rq, end([NewRes EXCEPT !.statusCode = 404],
                                       <<"text", "Not found: ", in.url>>))
           /\ req' = Leave(rq)
           /\ UNCHANGED pageCache
       ELSE
           /\ pageCache' = swept
           /\ IF isPageCacheValid(swept, cacheKey, now)
              THEN /\ out' = Answered([looked("hit") EXCEPT !.doc = swept[cacheKey].html],
                                      HitResponse(swept[cacheKey], in.acceptEncoding))
                   /\ req' = Leave(rq)
              ELSE /\ req' = Resume(rq, [looked("miss") EXCEPT !.pc = "render",
                                                               !.renders = @ + 1])
                   /\ UNCHANGED out
    /\ UNCHANGED <<now, fileCache, files, settingsStore, serverInstance, servers, boots,
                   timers, crashed, restarts>>

\* mutant: the 500 response hides the error message
ErrorResponse_Generic(message) ==
    end([NewRes EXCEPT !.statusCode = 500], <<"text", "Internal Server Error">>)

\* catch (e): res.statusCode = 500; res.end(e.message) (server.ts:501-505)
ErrorResponse(message) == end([NewRes EXCEPT !.statusCode = 500], <<"text", message>>)

\* the message of the error the rendering engine throws
RENDER_FAILED == "render failed"

\* What the awaits of the miss path can produce: a document, a redirect or
\* an exception.
Redirect == <<"redirect">>
Throws == <<"throw">>
RenderOutcomes == Docs \cup {Redirect, Throws}

\* The awaits of the miss path (vite.transformIndexHtml, render,
\* transformHtmlTemplate) have returned.
RenderReturn(rq, outcome) ==
    /\ ~crashed
    /\ rq \in InFlight
    /\ rq.pc = "render"
    /\ LET in == rq.in
           cacheKey == rq.cacheKey
       IN
       IF outcome = Redirect THEN
           /\ out' = Answered(rq, end(setHeader([NewRes EXCEPT !.statusCode = 301],
                                                    "Location", "/moved"),
                                          <<"empty">>))
           /\ UNCHANGED pageCache
       ELSE IF outcome = Throws THEN
           /\ out' = Answered(rq, ErrorResponse(RENDER_FAILED))
           /\ UNCHANGED pageCache
       ELSE
           /\ pageCache' = MapSet(pageCache, cacheKey, NewEntry(outcome, now))
           /\ out' = Answered([rq EXCEPT !.doc = outcome],
                              MissResponse(outcome, in.acceptEncoding))
    /\ req' = IF outcome # Redirect /\ outcome # Throws /\ ~rq.stale
              THEN UnmarkStale(Leave(rq), rq.cacheKey) ELSE Leave(rq)
    /\ UNCHANGED <<now, fileCache, files, settingsStore, serverInstance, servers, boots,
                   timers, crashed, restarts>>

\* A build writes a regular file under dist/ again: its modification time
\* moves on (what statSync reports at server.ts:143-148) and its bytes are
\* `content`, new or the same.
WriteFile(filePath, content) ==
    /\ ~crashed
    /\ filePath \in DOMAIN files
    /\ files[filePath].kind = "file"
    /\ files[filePath].mtime < 1 + MaxWrites
    /\ files' = [files EXCEPT ![filePath] =
                    [kind |-> "file", content |-> content, mtime |-> @.mtime + 1]]
    /\ UNCHANGED <<now, pageCache, fileCache, settingsStore, serverInstance, servers,
                   boots, timers, crashed, req, out, restarts>>

\* Date.now() advances
Tick ==
    /\ ~crashed
    /\ now < MaxTime
    /\ now' = now + 1
    /\ UNCHANGED <<pageCache, fileCache, files, settingsStore, serverInstance, servers,
                   boots, timers, crashed, req, out, restarts>>

(***************************************************************************)
(* set-thema (server.ts:306-362) and the restart (server.ts:348-356,       *)
(* 202-235, 509-514).                                                      *)
(***************************************************************************)
\* Request bodies: <<"json", t>> is {"theme": t}, <<"json">> is {},
\* <<"garbage">> does not parse.
BodyParses(body) == body[1] = "json"

\* const { theme } = JSON.parse(body)
BodyTheme(body) == IF Len(body) >= 2 THEN body[2] ELSE ""

\* a text/plain response with the given status
Text(code, msg) ==
    end(setHeader([NewRes EXCEPT !.statusCode = code], "Content-Type", "text/plain"),
        <<"text", msg>>)

\* req.on('end', async () => { ... }) up to `await fetch`
BodyEnd(rq) ==
    /\ ~crashed
    /\ rq \in InFlight
    /\ rq.pc = "body"
    /\ LET body == rq.in.body
           theme == BodyTheme(body)
           themes == servers[rq.srv].themes
       IN
       IF ~BodyParses(body) THEN
           /\ out' = Answered(rq, Text(400, "Invalid request body"))
           /\ req' = Leave(rq)
       ELSE IF theme = "" THEN
           /\ out' = Answered(rq,
                              end(setHeader([NewRes EXCEPT !.statusCode = 400],
                                            "Content-Type", "application/json"),
                                  <<"json", [success |-> FALSE,
                                             error |-> "Theme name is required"]>>))
           /\ req' = Leave(rq)
       ELSE IF ~themeExists(themes, theme) THEN
           /\ out' = Answered(rq, Text(404, "Theme not found"))
           /\ req' = Leave(rq)
       ELSE
           /\ req' = Resume(rq, [rq EXCEPT !.pc = "fetch"])
           /\ UNCHANGED out
    /\ UNCHANGED <<now, pageCache, fileCache, files, settingsStore, serverInstance, servers,
                   boots, timers, crashed, restarts>>

\* fetch(`${env.VITE_API_URL}/settings`) and settings.json() have settled.
\* outcome = "throw": either rejects, caught at server.ts:357.
FetchReturn(rq, outcome) ==
    /\ ~crashed
    /\ rq \in InFlight
    /\ rq.pc = "fetch"
    /\ LET theme == BodyTheme(rq.in.body)
       IN
       IF outcome = "throw" THEN
           /\ out' = Answered(rq, Text(400, "Invalid request body"))
           /\ UNCHANGED <<settingsStore, timers, restarts>>
       ELSE
           /\ settingsStore' = [RemoteSettings EXCEPT !.theme = theme]
           /\ out' = Answered(rq,
                              Text(200, "Theme set successfully. Server will restart to apply changes."))
           /\ timers' = timers + 1
           /\ restarts' = restarts + 1
    /\ req' = Leave(rq)
    /\ UNCHANGED <<now, pageCache, fileCache, files, serverInstance, servers, boots,
                   crashed>>

\* the setTimeout callback (server.ts:348-356)
TimerFire ==
    /\ ~crashed
    /\ timers > 0
    /\ timers' = timers - 1
    /\ IF serverInstance # 0
       THEN /\ servers' = [servers EXCEPT ![serverInstance].state =
                              IF @ = "listening" THEN "closed" ELSE @]
            /\ boots' = boots + 1
       ELSE UNCHANGED <<servers, boots>>
    /\ UNCHANGED <<now, pageCache, fileCache, files, settingsStore, serverInstance,
                   crashed, req, out, restarts>>

\* bootstrap() after `await createServer`: theme discovery, http.createServer,
\* server.listen.  The port is taken while another server listens on it.
BootstrapListen ==
    /\ ~crashed
    /\ boots > 0
    /\ boots' = boots - 1
    /\ servers' = Append(servers,
                         [state |-> IF Listening = {} THEN "listening" ELSE "error",
                          themes |-> DiscoverThemes])
    /\ serverInstance' = Len(servers) + 1
    /\ UNCHANGED <<now, pageCache, fileCache, files, settingsStore, timers, crashed, req,
                   out, restarts>>

\* listen failed with EADDRINUSE: the 'error' event has no listener, the
\* exception is uncaught and the process exits.
Crash ==
    /\ ~crashed
    /\ \E s \in 1..Len(servers) : servers[s].state = "error"
    /\ crashed' = TRUE
    /\ servers' = [s \in 1..Len(servers) |->
                      [servers[s] EXCEPT !.state = IF @ = "listening" THEN "closed" ELSE @]]
    /\ UNCHANGED <<now, pageCache, fileCache, files, settingsStore, serverInstance, boots,
                   timers, req, out, restarts>>

(***************************************************************************)
(* Specifications.  Each draws its requests from a set of inputs.          *)
(***************************************************************************)
ClearRequest == Request("POST", URL_CLEAR, SECRET, UA_NONE, AE_NONE, NoTag, NoBody)

\* an Authorization header that is present and is not `Bearer ${secret}`
BAD_AUTH == "Bearer wrong"

ClearWith(authorization) ==
    Request("POST", URL_CLEAR, authorization, UA_NONE, AE_NONE, NoTag, NoBody)

StatsWith(authorization) ==
    Request("GET", URL_STATS, authorization, UA_NONE, AE_NONE, NoTag, NoBody)

SetThema(authorization, body) ==
    Request("POST", URL_SET_THEMA, authorization, UA_NONE, AE_NONE, NoTag, body)

\* Page Render Cache: pages of both device classes, cache/clear, the clock;
\* every render returns a document (SpecRender has the other outcomes)
CacheInputs ==
    {Get(URL_ROOT, UA_NONE, AE_GZIP),
     Get(URL_ROOT, UA_PHONE, AE_ALL),
     ClearRequest}

NextCache ==
    \/ BootstrapListen
    \/ \E in \in CacheInputs : Receive(in, "ok")
    \/ \E rq \in InFlight : LoadReturn(rq, "ok")
    \/ \E rq \in InFlight, outcome \in Docs : RenderReturn(rq, outcome)
    \/ Tick

SpecCache == Init /\ [][NextCache]_vars

\* Compression Negotiator: pages and static files under every Accept-Encoding
EncodingInputs ==
    {Get(URL_ROOT, UA_NONE, AE_NONE),
     Get(URL_ROOT, UA_DESK, AE_GZIP),
     Get(URL_ROOT, UA_NONE, AE_ALL),
     Get(URL_ROOT, UA_PHONE, AE_BR),
     Get(URL_ROOT, UA_PHONE, AE_GZIP),
     Get(URL_ASSET, UA_NONE, AE_NONE),
     Get(URL_ASSET, UA_NONE, AE_GZIP),
     Get(URL_ASSET, UA_NONE, AE_ALL),
     Get(URL_LOGO, UA_NONE, AE_ALL)}

NextEncoding ==
    \/ BootstrapListen
    \/ \E in \in EncodingInputs : Receive(in, "ok")
    \/ \E rq \in InFlight : LoadReturn(rq, "ok")
    \/ \E rq \in InFlight, outcome \in Docs : RenderReturn(rq, outcome)

SpecEncoding == Init /\ [][NextEncoding]_vars

\* Cache keys: routes with and without ':', every kind of User-Agent
MobileAgents == {UA_PHONE, UA_LOWER}

DeviceClass(userAgent) == IF userAgent \in MobileAgents THEN "mobile" ELSE "desktop"

KeyInputs ==
    {Get(url, userAgent, AE_NONE) :
        url \in {URL_A, URL_A_MOBILE, URL_A_DESKTOP}, userAgent \in {UA_NONE, UA_PHONE}}
    \cup {Get(URL_A, UA_LOWER, AE_NONE)}

\* the document the rendering engine returns names the route and the device
\* class it was rendered for
RenderedFor(in) == <<"html", in.url, DeviceClass(in.userAgent)>>

NextKey ==
    \/ BootstrapListen
    \/ \E in \in KeyInputs : Receive(in, "ok")
    \/ \E rq \in InFlight : LoadReturn(rq, "ok")
    \/ \E rq \in InFlight : RenderReturn(rq, RenderedFor(rq.in))

SpecKey == Init /\ [][NextKey]_vars

\* set-thema and the restart: a page, an asset, set-thema requests
ThemeInputs ==
    {Get(URL_ROOT, UA_NONE, AE_GZIP),
     Get(URL_ASSET, UA_NONE, AE_GZIP),
     SetThema(SECRET, <<"json", "dark">>),
     SetThema(SECRET, <<"json", "unknown-namespace">>),
     SetThema(SECRET, <<"json", "broken">>)}

NextTheme ==
    \/ BootstrapListen
    \/ \E in \in ThemeInputs, io \in {"ok", "throw"} : Receive(in, io)
    \/ \E rq \in InFlight : LoadReturn(rq, "ok")
    \/ \E rq \in InFlight, outcome \in {<<"html", "v1">>} : RenderReturn(rq, outcome)
    \/ \E rq \in InFlight : BodyEnd(rq)
    \/ \E rq \in InFlight, outcome \in {"ok", "throw"} : FetchReturn(rq, outcome)
    \/ TimerFire
    \/ Crash

SpecTheme == Init /\ [][NextTheme]_vars

\* The admin routes with and without the secret: a page, set-thema with
\* every kind of body, the three routes with no header and with a wrong one.
\* The restart timers are scheduled and counted but do not fire.
AuthInputs ==
    {Get(URL_ROOT, UA_NONE, AE_GZIP),
     SetThema(SECRET, <<"json", "dark">>),
     SetThema(SECRET, <<"json", "unknown-namespace">>),
     SetThema(SECRET, <<"json">>),
     SetThema(SECRET, <<"garbage">>),
     SetThema("", <<"json", "dark">>),
     SetThema(BAD_AUTH, <<"json", "dark">>),
     ClearWith(""),
     ClearWith(BAD_AUTH),
     StatsWith(""),
     StatsWith(BAD_AUTH)}

NextAuth ==
    \/ BootstrapListen
    \/ \E in \in AuthInputs : Receive(in, "ok")
    \/ \E rq \in InFlight : LoadReturn(rq, "ok")
    \/ \E rq \in InFlight : RenderReturn(rq, <<"html", "v1">>)
    \/ \E rq \in InFlight : BodyEnd(rq)
    \/ \E rq \in InFlight, outcome \in {"ok", "throw"} : FetchReturn(rq, outcome)

SpecAuth == Init /\ [][NextAuth]_vars

\* The outcomes of a render: one page, a document, a redirect or an
\* exception from the rendering engine, the clock
RenderInputs == {Get(URL_ROOT, UA_NONE, AE_GZIP)}

NextRender ==
    \/ BootstrapListen
    \/ \E in \in RenderInputs : Receive(in, "ok")
    \/ \E rq \in InFlight : LoadReturn(rq, "ok")
    \/ \E rq \in InFlight, outcome \in RenderOutcomes : RenderReturn(rq, outcome)
    \/ Tick

SpecRender == Init /\ [][NextRender]_vars

\* cache/clear and cache/stats: pages of both device classes, the two admin
\* operations with the secret, the clock
StatsInputs ==
    {Get(URL_ROOT, UA_NONE, AE_NONE),
     Get(URL_ROOT, UA_PHONE, AE_NONE),
     ClearRequest,
     StatsWith(SECRET)}

NextStats ==
    \/ BootstrapListen
    \/ \E in \in StatsInputs : Receive(in, "ok")
    \/ \E rq \in InFlight : LoadReturn(rq, "ok")
    \/ \E rq \in InFlight, outcome \in {<<"html", "v1">>, Redirect} : RenderReturn(rq, outcome)
    \/ Tick

SpecStats == Init /\ [][NextStats]_vars

\* Static File Cache: a script that is written again, an image, a missing
\* file, a directory and a page; conditional and unconditional requests
JS1 == <<"bytes", "js1">>
JS2 == <<"bytes", "js2">>

Conditional(url, acceptEncoding, ifNoneMatch) ==
    Request("GET", url, "", UA_NONE, acceptEncoding, ifNoneMatch, NoBody)

StaticInputs ==
    {Get(URL_ASSET, UA_NONE, AE_NONE),
     Conditional(URL_ASSET, AE_GZIP, md5(JS1)),
     Get(URL_LOGO, UA_NONE, AE_GZIP),
     Get(URL_CSS, UA_NONE, AE_GZIP),
     Get(URL_DIR, UA_NONE, AE_GZIP),
     Get(URL_ROOT, UA_NONE, AE_GZIP)}

NextStatic ==
    \/ BootstrapListen
    \/ \E in \in StaticInputs, io \in {"ok", "throw"} : Receive(in, io)
    \/ \E rq \in InFlight : LoadReturn(rq, "ok")
    \/ \E rq \in InFlight : RenderReturn(rq, <<"html", "v1">>)
    \/ \E content \in {JS1, JS2} : WriteFile(DistPath(URL_ASSET), content)

SpecStatic == Init /\ [][NextStatic]_vars

\* Termination of a request: a page, a script, cache/stats; the template or
\* module load and the render return or throw.  Every pending await
\* settles: a step of a suspended request that stays possible is taken.
LiveInputs ==
    {Get(URL_ROOT, UA_NONE, AE_GZIP),
     Get(URL_ASSET, UA_NONE, AE_GZIP),
     StatsWith(SECRET)}

LoadSettles == \E rq \in InFlight, outcome \in {"ok", "throw"} : LoadReturn(rq, outcome)

RenderSettles == \E rq \in InFlight, outcome \in RenderOutcomes : RenderReturn(rq, outcome)

NextLive ==
    \/ BootstrapListen
    \/ \E in \in LiveInputs, io \in {"ok", "throw"} : Receive(in, io)
    \/ LoadSettles
    \/ RenderSettles
    \/ Tick

SpecLive ==
    /\ Init /\ [][NextLive]_vars
    /\ WF_vars(BootstrapListen) /\ WF_vars(LoadSettles) /\ WF_vars(RenderSettles)

(***************************************************************************)
(* Properties of the Page Render Cache, checked under SpecCache.           *)
(***************************************************************************)
\* the requests the model knows: those in flight and the one answered last
Known == InFlight \cup {out}

\* a page was sent: rendered by this request or served from the cache
PageSent(rq) == rq.pc = "done" /\ rq.lookup \in {"hit", "miss"} /\ rq.doc \in Docs

\* in this step the request rq left the place where it was waiting
Left(rq) == CopiesIn(rq, req') < CopiesIn(rq, req)

\* in this step the request rq was answered
AnsweredNow(rq) ==
    /\ Left(rq)
    /\ BagCardinality(req') < BagCardinality(req)
    /\ out'.pc = "done" /\ out'.in = rq.in /\ out'.srv = rq.srv

\* C1: after an authorized cache/clear, a lookup of a key the clear removed
\* misses until a request that looked the key up after the clear stores it:
\* no entry that a lookup would return was stored by a request that was
\* already inside the render call when the clear ran.
C1_ClearedKeysMissUntilRestored ==
    ~(PageSent(out) /\ out.lookup = "miss" /\ out.stale
        /\ isPageCacheValid(pageCache, out.cacheKey, now))

\* C2: a lookup that finds an entry of age >= TTL (30 minutes) misses and the
\* request calls the rendering engine; a lookup that finds an entry younger
\* than the TTL hits and is served that entry.
C2_TtlDecidesLookup ==
    \A rq \in Known :
        /\ rq.age >= PAGE_CACHE_DURATION => rq.lookup = "miss" /\ rq.renders = 1
        /\ rq.age \in 0..(PAGE_CACHE_DURATION - 1) =>
               rq.lookup = "hit" /\ rq.renders = 0 /\ PageSent(rq)
        /\ rq.lookup = "hit" => rq.age \in 0..(PAGE_CACHE_DURATION - 1)

\* an expired entry was found (clear was never needed) and the page rendered anew
C2_Witness ==
    /\ PageSent(out) /\ out.lookup = "miss" /\ out.age >= PAGE_CACHE_DURATION
    /\ out.renders = 1

\* C3: right after a store under a key, a lookup of that key returns an
\* entry whose uncompressed variant is the document that was stored.
C3_StoreThenLookup ==
    [][\A rq \in InFlight :
          (rq.pc = "render" /\ AnsweredNow(rq) /\ PageSent(out')
             /\ out'.cacheKey = rq.cacheKey)
          => /\ isPageCacheValid(pageCache', rq.cacheKey, now')
             /\ pageCache'[rq.cacheKey].compressedVersions.uncompressed = out'.doc]_vars

\* a document was stored late in the run and is in the cache
C3_Witness ==
    /\ PageSent(out) /\ out.lookup = "miss" /\ now >= PAGE_CACHE_DURATION
    /\ out.cacheKey \in DOMAIN pageCache
    /\ pageCache[out.cacheKey].compressedVersions.uncompressed = out.doc
    /\ pageCache[out.cacheKey].timestamp = now

ROOT_DESKTOP == <<"/", ":", "d", "e", "s", "k", "t", "o", "p">>
ROOT_MOBILE == <<"/", ":", "m", "o", "b", "i", "l", "e">>

\* C5: a request whose lookup hits does not call the rendering engine and
\* leaves the entry of its key as it was; a request whose lookup misses calls
\* the rendering engine exactly once and, when a document comes back, the
\* entry is stored under the request's key when the response is sent (key
\* "/:desktop" for GET / without User-Agent).
C5_HitOrRenderOnce ==
    [][\A rq \in InFlight :
          /\ (rq.pc = "load" /\ AnsweredNow(rq) /\ out'.lookup = "hit")
             => /\ out'.renders = 0
                /\ out'.cacheKey \in DOMAIN pageCache
                /\ out'.cacheKey \in DOMAIN pageCache'
                /\ pageCache'[out'.cacheKey] = pageCache[out'.cacheKey]
          /\ (rq.pc = "load" /\ Left(rq) /\ ~HasExtension(rq.in.url)
                /\ BagCardinality(req') = BagCardinality(req)
                /\ CopiesIn([rq EXCEPT !.pc = "hung"], req')
                     = CopiesIn([rq EXCEPT !.pc = "hung"], req))
             => \E nx \in BagToSet(req') :
                   /\ CopiesIn(nx, req') > CopiesIn(nx, req)
                   /\ nx.pc = "render" /\ nx.lookup = "miss" /\ nx.renders = 1
                   /\ nx.in = rq.in
          /\ (rq.pc = "render" /\ AnsweredNow(rq))
             => /\ out'.renders = 1
                /\ rq.in.url = URL_ROOT /\ rq.in.userAgent = UA_NONE
                     => rq.cacheKey = ROOT_DESKTOP
                /\ rq.in.url = URL_ROOT /\ rq.in.userAgent = UA_PHONE
                     => rq.cacheKey = ROOT_MOBILE
                /\ PageSent(out')
                     => /\ rq.cacheKey \in DOMAIN pageCache'
                        /\ pageCache'[rq.cacheKey].html = out'.doc
                        /\ pageCache'[rq.cacheKey].timestamp = now]_vars

\* GET / without User-Agent was rendered once and stored under "/:desktop"
C5_Witness ==
    /\ PageSent(out) /\ out.lookup = "miss" /\ out.renders = 1
    /\ out.in.url = URL_ROOT /\ out.in.userAgent = UA_NONE
    /\ ROOT_DESKTOP \in DOMAIN pageCache
    /\ pageCache[ROOT_DESKTOP].html = out.doc

\* C23: no document is served from the cache at age >= TTL: a hit serves the
\* entry's document at an age below the TTL and leaves the entry's timestamp
\* as it was, and a request that finds its key's entry at age >= TTL is not
\* served from the cache but calls the rendering engine.
C23_NeverServedAtTtl ==
    [][\A rq \in InFlight :
          /\ (rq.pc = "load" /\ AnsweredNow(rq) /\ out'.lookup = "hit")
             => LET key == generateCacheKey(rq.in.url, rq.in.userAgent)
                IN  /\ key \in DOMAIN pageCache
                    /\ now - pageCache[key].timestamp < PAGE_CACHE_DURATION
                    /\ out'.doc = pageCache[key].html
                    /\ key \in DOMAIN pageCache'
                    /\ pageCache'[key].timestamp = pageCache[key].timestamp
          /\ (rq.pc = "load" /\ Left(rq) /\ ~HasExtension(rq.in.url)
                /\ generateCacheKey(rq.in.url, rq.in.userAgent) \in DOMAIN pageCache
                /\ now - pageCache[generateCacheKey(rq.in.url, rq.in.userAgent)].timestamp
                     >= PAGE_CACHE_DURATION)
             => /\ BagCardinality(req') = BagCardinality(req)
                /\ out' = out
                /\ \E nx \in BagToSet(req') :
                      /\ CopiesIn(nx, req') > CopiesIn(nx, req)
                      /\ nx.in = rq.in /\ nx.lookup = "miss"
                      /\ nx.pc = "render" /\ nx.renders = 1]_vars

\* an entry was served from the cache below the TTL, its timestamp stayed, and
\* at age = TTL the next request for its key is rendering instead
C23_Witness ==
    /\ out.pc = "done" /\ out.lookup = "hit" /\ out.age = PAGE_CACHE_DURATION - 1
    /\ out.cacheKey \in DOMAIN pageCache
    /\ now - pageCache[out.cacheKey].timestamp = PAGE_CACHE_DURATION
    /\ \E rq \in InFlight :
          /\ rq.pc = "render" /\ rq.lookup = "miss"
          /\ rq.cacheKey = out.cacheKey /\ rq.age = PAGE_CACHE_DURATION

\* the encoding the fixed priority gives for an Accept-Encoding header
PreferredEncoding(acceptEncoding) ==
    IF Includes(acceptEncoding, BR) THEN "br"
    ELSE IF Includes(acceptEncoding, GZIP) THEN "gzip"
    ELSE "none"

ExpectedPage(doc, acceptEncoding) ==
    LET e == PreferredEncoding(acceptEncoding)
    IN  [statusCode |-> 200,
         headers |-> [n \in {"Content-Type", "Cache-Control"}
                             \cup (IF e = "none" THEN {} ELSE {"Content-Encoding"}) |->
                         CASE n = "Content-Type" -> "text/html"
                           [] n = "Cache-Control" -> "public, max-age=900"
                           [] OTHER -> e],
         body |-> CASE e = "br" -> <<"br", doc>>
                    [] e = "gzip" -> <<"gzip", doc>>
                    [] OTHER -> doc]

C7_AllVariantsPresent ==
    \A k \in DOMAIN pageCache :
        LET entry == pageCache[k]
        IN  /\ entry.html \in Docs
            /\ entry.compressedVersions.uncompressed = entry.html
            /\ entry.compressedVersions.gzip = <<"gzip", entry.html>>
            /\ entry.compressedVersions.br = <<"br", entry.html>>

\* both keys are cached and one of them was just served from the cache
C7_Witness ==
    /\ Cardinality(DOMAIN pageCache) = 2
    /\ PageSent(out) /\ out.lookup = "hit"

(***************************************************************************)
(* Properties of the outcomes of a render, checked under SpecRender.       *)
(***************************************************************************)
\* in this step the request rq did its sweep and lookup
LookedUpNow(rq) ==
    /\ rq.pc = "load" /\ Left(rq) /\ ~HasExtension(rq.in.url)
    /\ CopiesIn([rq EXCEPT !.pc = "hung"], req') = CopiesIn([rq EXCEPT !.pc = "hung"], req)

\* C15 as stated: a request that ends in a redirect is answered 301 with the
\* Location header and the Page Render Cache after the request is the cache
\* before it: neither its sweep nor its redirect stored, modified or removed
\* an entry.
C15_RedirectCacheUntouched ==
    [][\A rq \in InFlight :
          (rq.pc = "render" /\ AnsweredNow(rq) /\ out'.res.statusCode = 301)
          => /\ "Location" \in DOMAIN out'.res.headers
             /\ pageCache' = pageCache
             /\ ~out'.swept]_vars

\* C15, amended: a request that ends in a redirect is answered 301 with the
\* Location header and no body, and the step that answers it leaves the Page
\* Render Cache as it is; the only change the request has made to the cache
\* is the sweep before its lookup, which removes exactly the entries older
\* than the TTL and stores or modifies none.
C15_RedirectStoresNothing ==
    [][\A rq \in InFlight :
          /\ (rq.pc = "render" /\ AnsweredNow(rq) /\ out'.res.statusCode = 301)
             => /\ "Location" \in DOMAIN out'.res.headers
                /\ out'.res.body = <<"empty">>
                /\ out'.doc = Undefined
                /\ out'.renders = 1
                /\ pageCache' = pageCache
          /\ LookedUpNow(rq)
             => /\ DOMAIN pageCache' =
                      {k \in DOMAIN pageCache :
                          now - pageCache[k].timestamp <= PAGE_CACHE_DURATION}
                /\ \A k \in DOMAIN pageCache' : pageCache'[k] = pageCache[k]]_vars

\* a request whose sweep removed an entry was answered 301 and its key is
\* not in the cache
C15_Witness ==
    /\ out.pc = "done" /\ out.res.statusCode = 301 /\ out.swept
    /\ out.age > PAGE_CACHE_DURATION
    /\ out.cacheKey \notin DOMAIN pageCache

Looked == {rq \in Known : rq.lookup \in {"hit", "miss"}}

\* C4: two requests have the same cache key exactly when they have the same
\* route and the same device class (also for routes that contain ':' or end
\* in ':mobile' or ':desktop'); a request without User-Agent is classed
\* desktop; a request is served from the cache only a document rendered for
\* its own route and device class, and each (route, device class) has one
\* entry.
C4_KeyIsInjective ==
    /\ \A a, b \in Looked :
          (a.in.url = b.in.url /\ DeviceClass(a.in.userAgent) = DeviceClass(b.in.userAgent))
             <=> (a.cacheKey = b.cacheKey)
    /\ \A a \in Looked :
          a.in.userAgent = UA_NONE => a.cacheKey = a.in.url \o <<":">> \o DESKTOP
    /\ (out.pc = "done" /\ out.lookup = "hit") => out.doc = RenderedFor(out.in)
    /\ \A j, k \in DOMAIN pageCache : pageCache[j].html = pageCache[k].html => j = k

\* "/a:mobile" of a desktop client is served from its own entry while the
\* entry of "/a" of a mobile client is in the cache
C4_Witness ==
    /\ out.pc = "done" /\ out.lookup = "hit"
    /\ out.in.url = URL_A_MOBILE /\ out.in.userAgent = UA_NONE
    /\ generateCacheKey(URL_A, UA_PHONE) \in DOMAIN pageCache
    /\ \E rq \in InFlight : rq.lookup = "miss" /\ rq.in.url = URL_A
                            /\ rq.in.userAgent = UA_LOWER

(***************************************************************************)
(* Properties of set-thema and the restart, checked under SpecTheme.       *)
(***************************************************************************)
\* the themes with a well-formed manifest
Registered == {"default", "dark"}

\* in this step a bootstrap run by a restart opened its listener
RestartCompleted ==
    /\ Len(servers) >= 1
    /\ Len(servers') > Len(servers)
    /\ servers'[Len(servers')].state = "listening"

\* C8: when the restart triggered by set-thema has completed (the new
\* listener is open), the Page Render Cache and the Static File Cache are
\* both empty.
C8_RestartEmptiesCaches ==
    [][RestartCompleted => (DOMAIN pageCache' = {} /\ DOMAIN fileCache' = {})]_vars

\* C9: the restart sequence of a successful set-thema always runs to
\* completion: once every scheduled restart timer has fired and every
\* bootstrap it started has returned, the listener that serverInstance refers
\* to is open.
C9_RestartRunsToCompletion ==
    (restarts > 0 /\ timers = 0 /\ boots = 0) => serverInstance \in Listening

\* C10: an authorized set-thema naming a theme that is not in the registry is
\* answered 404 and changes neither the restart timers, the listeners and
\* their theme registries, the running bootstraps, the persisted settings nor
\* the two caches; a restart timer is scheduled only in the step that answers
\* a set-thema request with 200, and a bootstrap is started only by a timer.
C10_UnknownThemeChangesNothing ==
    [][/\ \A rq \in InFlight :
            (/\ rq.pc = "body" /\ Left(rq)
             /\ rq.in.authorization = SECRET
             /\ BodyParses(rq.in.body)
             /\ BodyTheme(rq.in.body) # ""
             /\ BodyTheme(rq.in.body) \notin Registered)
            => /\ AnsweredNow(rq)
               /\ out'.res.statusCode = 404
               /\ UNCHANGED <<timers, restarts, boots, servers, serverInstance,
                              settingsStore, pageCache, fileCache>>
       /\ timers' > timers
            => /\ BagCardinality(req') < BagCardinality(req)
               /\ out'.pc = "done" /\ out'.in.url = URL_SET_THEMA
               /\ out'.in.method = "POST" /\ out'.res.statusCode = 200
       /\ boots' > boots => timers' = timers - 1
       /\ (\E s \in Listening : s \notin Listening')
            => (timers' = timers - 1 \/ crashed')]_vars

\* set-thema for an unknown theme was answered 404 while both caches hold
\* entries and the first listener is still open
C10_Witness ==
    /\ out.pc = "done" /\ out.in.url = URL_SET_THEMA
    /\ out.in.body = <<"json", "unknown-namespace">>
    /\ out.res.statusCode = 404
    /\ DOMAIN pageCache # {} /\ DOMAIN fileCache # {}
    /\ Listening = {1} /\ timers = 0 /\ boots = 0

\* C21: restarts never overlap: bootstrap is never running twice at the same
\* time, no bootstrap finds the port taken when it listens, and a listener
\* that is open is the one serverInstance refers to.
C21_RestartsDoNotOverlap ==
    /\ boots <= 1
    /\ \A s \in 1..Len(servers) : servers[s].state # "error"
    /\ Listening \subseteq {serverInstance}
    /\ Cardinality(Listening) <= 1

(***************************************************************************)
(* Properties of the admin routes' checks, checked under SpecAuth.         *)
(***************************************************************************)
\* C11: an authorized set-thema is answered 400 only when its body does not
\* parse or has no theme, 404 only when the theme it names is not in the
\* registry, and 200 whenever the body parses and names a registered theme,
\* whatever the settings fetch and the persistence do.
C11_StatusDecidedByBody ==
    (/\ out.pc = "done" /\ out.in.url = URL_SET_THEMA /\ out.in.method = "POST"
     /\ out.in.authorization = SECRET)
    => LET body == out.in.body
           theme == BodyTheme(body)
       IN  /\ out.res.statusCode = 400 => (~BodyParses(body) \/ theme = "")
           /\ out.res.statusCode = 404
                => (BodyParses(body) /\ theme # "" /\ theme \notin Registered)
           /\ (BodyParses(body) /\ theme \in Registered) => out.res.statusCode = 200

\* the three admin operations
AdminRoute(in) ==
    \/ in.url = URL_CLEAR /\ in.method = "POST"
    \/ in.url = URL_STATS /\ in.method = "GET"
    \/ in.url = URL_SET_THEMA /\ in.method = "POST"

\* C12: a request to one of the three admin operations whose Authorization
\* header is absent or is not 'Bearer <secret>' is answered 401 'Unauthorized'
\* in the step that receives it, and that step changes neither the two
\* caches, the persisted settings, the restart timers, the bootstraps, the
\* listeners nor the requests in flight (no body is read, no settings fetch
\* is started).
C12_UnauthorizedChangesNothing ==
    [][(/\ out' # out /\ out'.pc = "done" /\ AdminRoute(out'.in)
        /\ out'.in.authorization # SECRET)
       => /\ out'.res = Unauthorized
          /\ out'.res.statusCode = 401
          /\ UNCHANGED <<pageCache, fileCache, settingsStore, timers, restarts, boots,
                         servers, serverInstance, req, crashed>>]_vars

\* cache/clear with a wrong bearer token was answered 401 while the Page
\* Render Cache holds an entry and a set-thema request is waiting
C12_Witness ==
    /\ out.pc = "done" /\ out.in = ClearWith(BAD_AUTH)
    /\ out.res.statusCode = 401
    /\ DOMAIN pageCache # {}
    /\ \E rq \in InFlight : rq.pc = "fetch"

(***************************************************************************)
(* Properties of cache/clear and cache/stats, checked under SpecStats.     *)
(***************************************************************************)
\* in this step the request `in` was answered (a response that repeats the
\* one sent last and changes nothing is a stuttering step)
AdminAnswered(in) == out'.pc = "done" /\ out'.in = in /\ out' # out

\* C13: the response of an authorized cache/clear carries a count, and the
\* count is the number of entries the Page Render Cache held just before
\* the clear.
C13_ClearReturnsCount ==
    [][AdminAnswered(ClearRequest)
       => LET data == out'.res.body[2]
          IN  \E f \in (DOMAIN data) \ {"success", "message"} :
                  data[f] = Cardinality(DOMAIN pageCache)]_vars

\* C14: an authorized cache/stats leaves the Page Render Cache as it was,
\* expired entries included; the total it reports is the number of entries
\* in the map and is the sum of valid and expired; an entry younger than the
\* TTL is counted valid and an entry older than the TTL is counted expired.
C14_StatsReadOnly ==
    [][AdminAnswered(StatsWith(SECRET))
       => LET stats == out'.res.body[2]
              younger == {k \in DOMAIN pageCache :
                             now - pageCache[k].timestamp < PAGE_CACHE_DURATION}
              older == {k \in DOMAIN pageCache :
                           now - pageCache[k].timestamp > PAGE_CACHE_DURATION}
          IN  /\ pageCache' = pageCache
              /\ out'.res.statusCode = 200
              /\ stats.total = Cardinality(DOMAIN pageCache)
              /\ stats.total = stats.valid + stats.expired
              /\ stats.valid >= Cardinality(younger)
              /\ stats.expired >= Cardinality(older)
              /\ stats.valid <= Cardinality((DOMAIN pageCache) \ older)
              /\ stats.expired <= Cardinality((DOMAIN pageCache) \ younger)]_vars

\* stats reported one valid and one expired entry, and both are in the map
C14_Witness ==
    /\ out.pc = "done" /\ out.in = StatsWith(SECRET)
    /\ out.res.body[2] = [total |-> 2, valid |-> 1, expired |-> 1]
    /\ Cardinality(DOMAIN pageCache) = 2

\* What getCacheStats counts for the one entry stored under key.
StatsOfEntry(key) == getCacheStats(MapRestrict(pageCache, {key}), now)

\* C22: at every instant the three expiry tests agree on every entry: stats
\* counts it valid exactly when a lookup of its key would hit, and counts it
\* expired exactly when the sweep would remove it.
C22_ExpiryTestsAgree ==
    \A key \in DOMAIN pageCache :
        /\ StatsOfEntry(key).valid = 1 <=> isPageCacheValid(pageCache, key, now)
        /\ StatsOfEntry(key).expired = 1
               <=> key \notin DOMAIN cleanExpiredPageCache(pageCache, now)

(***************************************************************************)
(* Properties of the Static File Cache, checked under SpecStatic.          *)
(***************************************************************************)
\* in this step the static stage answered a request
StaticAnswered ==
    /\ out' # out /\ out'.pc = "done" /\ req' = req
    /\ "ETag" \in DOMAIN out'.res.headers

\* the entity tag of a file's bytes
TagOf(content) == <<"md5", content>>

\* C17: a static request that finds a cached entry with the modification
\* time the file has now reuses it: the Static File Cache is unchanged and
\* the response has the entry's tag, the tag of the previous response for
\* that file; a static request that finds no entry, or one with another
\* modification time, replaces the entry of that path alone by the bytes
\* the file has now, their hash and its modification time.  Every entry's
\* tag is the hash of the entry's own bytes.
C17_TagIsHashOfCachedBytes ==
    [][/\ StaticAnswered
          => LET filePath == DistPath(out'.in.url)
                 file == files[filePath]
             IN  /\ filePath \in DOMAIN files /\ filePath \in DOMAIN fileCache'
                 /\ (filePath \in DOMAIN fileCache /\ fileCache[filePath].mtime = file.mtime)
                    => /\ fileCache' = fileCache
                       /\ out'.res.headers["ETag"] = fileCache[filePath].etag
                       /\ (out.pc = "done" /\ out.in.url = out'.in.url
                             /\ "ETag" \in DOMAIN out.res.headers)
                          => out'.res.headers["ETag"] = out.res.headers["ETag"]
                 /\ (filePath \notin DOMAIN fileCache
                       \/ fileCache[filePath].mtime # file.mtime)
                    => /\ fileCache'[filePath] = [buffer |-> file.content,
                                                 etag |-> TagOf(file.content),
                                                 mtime |-> file.mtime]
                       /\ out'.res.headers["ETag"] = TagOf(file.content)
                       /\ DOMAIN fileCache' = (DOMAIN fileCache) \cup {filePath}
                       /\ \A q \in (DOMAIN fileCache) \ {filePath} :
                              fileCache'[q] = fileCache[q]
       /\ \A q \in DOMAIN fileCache' : fileCache'[q].etag = TagOf(fileCache'[q].buffer)]_vars

\* the script was written again with new bytes and a request has replaced
\* its entry
C17_Witness ==
    /\ out.pc = "done" /\ out.in.url = URL_ASSET /\ out.res.statusCode = 200
    /\ DistPath(URL_ASSET) \in DOMAIN fileCache
    /\ fileCache[DistPath(URL_ASSET)] = [buffer |-> JS2, etag |-> TagOf(JS2), mtime |-> 2]
    /\ out.res.headers["ETag"] = TagOf(JS2)

ExtensionUrls == {URL_ASSET, URL_LOGO, URL_CSS, URL_DIR}

C20_EveryRequestResponded ==
    \A in \in LiveInputs :
        (\E rq \in InFlight : rq.in = in) ~> (out.pc = "done" /\ out.in = in)

====
